---- MODULE Spec2Model ----
(***************************************************************************)
(* Verification model of the two command-line utilities of                 *)
(* MediaWikiAnythingLLM:                                                   *)
(*   scripts/scrape_mediawiki.py      (exporter)                           *)
(*   scripts/upload_to_anythingllm.py (uploader)                           *)
(* Strings that the code inspects character by character (page titles,     *)
(* file names) are sequences of one-character strings.                     *)
(***************************************************************************)
EXTENDS Integers, Sequences, FiniteSets, TLC

VARIABLES
    \* ---- sanitize_filename applied to one title
    title, safe_name, san_pc,
    \* ---- scrape_mediawiki: the wiki's pages, the --limit argument, the
    \* position of the run, the loop index, the two counters, the indices
    \* whose content was requested, the files opened for writing in order,
    \* and the names present in the output directory
    pages, limit, exp_pc, i, exported_count, error_count, fetched, writes, disk,
    \* ---- upload_documents: the workspaces the service holds, the documents
    \* directory, the position of the run, the resolved slug, the candidate
    \* files, the number of loop iterations begun, the two counters, and what
    \* the run did: the create-workspace calls it issued, whether the service
    \* held the target workspace when the run began, the calls and pauses of
    \* the loop in order, and the number of the run
    service_workspaces, dir_exists, dir_entries, up_pc, workspace_slug, files,
    idx, uploaded, embedded, create_calls, held_at_start, events, run,
    \* ---- main() of either script: which script, whether python-dotenv was
    \* imported, the flags given on the command line, os.environ, the
    \* variables of the .env file, the parsed args, the position in main and
    \* the values handed to scrape_mediawiki / upload_documents
    cli, dotenv_available, argv, os_environ, env_file, args, main_pc, passed

sanVars == <<title, safe_name, san_pc>>
expVars == <<pages, limit, exp_pc, i, exported_count, error_count, fetched, writes, disk>>
upVars == <<service_workspaces, dir_exists, dir_entries, up_pc, workspace_slug, files,
            idx, uploaded, embedded, create_calls, held_at_start, events, run>>
mainVars == <<cli, dotenv_available, argv, os_environ, env_file, args, main_pc, passed>>
vars == <<sanVars, expVars, upVars, mainVars>>

None == "None"

\* all sequences over S of length at most n
SeqsUpTo(S, n) == UNION {[1..m -> S] : m \in 0..n}

SetMin(S) == CHOOSE x \in S : \A y \in S : x <= y
SetMax(S) == CHOOSE x \in S : \A y \in S : x >= y

(***************************************************************************)
(* sanitize_filename (scrape_mediawiki.py 27-36)                           *)
(***************************************************************************)
\* the character class of re.sub(r'[<>:"/\\|?*]', ...)
Forbidden == {"<", ">", ":", "\"", "/", "\\", "|", "?", "*"}
\* characters matched by \s (those TLA+ can write)
Whitespace == {" ", "\t", "\n", "\r", "\f"}
\* the argument of str.strip('._')
StripChars == {".", "_"}
\* the length limit of the file name
MaxNameLen == 200

\* variant: the character class written without the escaped backslash
ReplaceForbiddenNoBackslash(s) ==
    [k \in 1..Len(s) |-> IF s[k] \in Forbidden \ {"\\"} THEN "_" ELSE s[k]]

\* re.sub(r'[<>:"/\\|?*]', '_', title)
ReplaceForbidden(s) ==
    [k \in 1..Len(s) |-> IF s[k] \in Forbidden THEN "_" ELSE s[k]]

\* re.sub(r'\s+', '_', safe_name): every maximal run of whitespace becomes one '_'
CollapseWhitespace(s) ==
    LET marked == [k \in 1..Len(s) |->
                     [c    |-> IF s[k] \in Whitespace THEN "_" ELSE s[k],
                      keep |-> ~(s[k] \in Whitespace /\ k > 1 /\ s[k-1] \in Whitespace)]]
        kept == SelectSeq(marked, LAMBDA m : m.keep)
    IN  [k \in 1..Len(kept) |-> kept[k].c]

\* safe_name.strip('._')
Strip(s) ==
    LET inner == {k \in 1..Len(s) : s[k] \notin StripChars}
    IN  IF inner = {} THEN <<>> ELSE SubSeq(s, SetMin(inner), SetMax(inner))

\* if len(safe_name) > 200: safe_name = safe_name[:200]
Truncate(s) == IF Len(s) > MaxNameLen THEN SubSeq(s, 1, MaxNameLen) ELSE s

sanitize_filename(t) == Truncate(Strip(CollapseWhitespace(ReplaceForbidden(t))))

(***************************************************************************)
(* scrape_mediawiki (scrape_mediawiki.py 61-156)                           *)
(***************************************************************************)
MaxPages == 3
MaxLimit == 3

\* page names as the wiki reports them; two of them give the same file name
\* and one gives the empty name
PageTitles == { <<"A", "/", "B">>, <<"A", " ", "B">>, <<"C">>, <<"?">> }
\* what happens to a page: page.text() raises, open()/write() raises, or neither
PageOutcomes == {"ok", "fetch_fail", "write_fail"}
PageHandles == [name : PageTitles, outcome : PageOutcomes]
\* site.allpages(): a finite sequence of pages with pairwise distinct names
PageSeqs == {ps \in SeqsUpTo(PageHandles, MaxPages) :
                \A a, b \in 1..Len(ps) : a # b => ps[a].name # ps[b].name}
\* --limit: None (written <<>>) or an integer argparse accepts (written <<n>>)
NoLimit == <<>>
Limits == {NoLimit} \cup {<<n>> : n \in -1..MaxLimit}

TxtSuffix == <<".", "t", "x", "t">>

\* Python truth value of the limit argument in "if limit and i >= limit"
LimitTruthy == limit # NoLimit /\ limit[1] # 0
LimitReached == LimitTruthy /\ i >= limit[1]

ExpIdle ==
    /\ pages = <<>>
    /\ limit = NoLimit
    /\ exp_pc = "idle"
    /\ i = 0
    /\ exported_count = 0
    /\ error_count = 0
    /\ fetched = {}
    /\ writes = <<>>
    /\ disk = {}

(***************************************************************************)
(* AnythingLLMClient and upload_documents (upload_to_anythingllm.py)       *)
(***************************************************************************)
MaxEntries == 3
MaxRuns == 2

\* the workspace_name argument
WorkspaceName == "MediaWiki Import"
Workspace(n, k) == [name |-> n, slug |-> <<n, k>>]
NoSlug == <<>>
\* what the service may hold before the first run
InitialServices ==
    { <<>>,
      <<Workspace(WorkspaceName, 1)>>,
      <<Workspace("mediawiki import", 1), Workspace(WorkspaceName, 2)>> }
HoldsName(wss, n) == \E k \in 1..Len(wss) : wss[k].name = n

\* entries of the documents directory: suffix and whether it is a regular file
EntryKinds == { [suffix |-> ".txt", is_file |-> TRUE],
                [suffix |-> ".MD",  is_file |-> TRUE],
                [suffix |-> ".exe", is_file |-> TRUE],
                [suffix |-> ".txt", is_file |-> FALSE] }
\* str.lower() on the suffixes above
Lower(x) == IF x = ".MD" THEN ".md" ELSE x
extensions == {".txt", ".md", ".pdf", ".docx", ".doc", ".html", ".htm"}
\* [f for f in docs_path.iterdir() if f.is_file() and f.suffix.lower() in extensions]
CandidateFiles(entries) ==
    SelectSeq(entries, LAMBDA e : e.is_file /\ Lower(e.suffix) \in extensions)

\* Python dicts are functions from their keys; {} is the function with no key
EmptyDict == [k \in {} |-> None]
DictGet(d, key, default) == IF key \in DOMAIN d THEN d[key] ELSE default
\* Python truth value of a dict
DictTruthy(d) == DOMAIN d # {}
\* variant: "is not None" in place of the truth value
StrNotNone(x) == x # None
\* Python truth value of an optional string
StrTruthy(x) == x # None /\ x # ""

\* bodies the upload endpoint may answer with on a 2xx status
UploadJsons ==
    { EmptyDict,
      [success |-> FALSE],
      [success |-> TRUE, documents |-> <<>>],
      [success |-> TRUE, documents |-> <<EmptyDict>>],
      [success |-> TRUE, documents |-> <<[location |-> ""]>>],
      [success |-> TRUE, documents |-> <<[location |-> "custom-documents/doc.json"]>>] }
\* an HTTP call either raises (connection error, timeout, error status) or returns
UploadOutcomes ==
    {[raised |-> TRUE, json |-> EmptyDict]} \cup {[raised |-> FALSE, json |-> j] : j \in UploadJsons}

\* get_workspaces: the service's list, [] when the call raises
get_workspaces(raised) == IF raised THEN <<>> ELSE service_workspaces
\* upload_document: the response body, {} when the call raises
upload_document(o) == IF o.raised THEN EmptyDict ELSE o.json
\* add_document_to_workspace: True unless the call raises
add_document_to_workspace(raised) == ~raised

\* for ws in workspaces: if ws.get('name') == workspace_name: workspace = ws; break
FindWorkspace(wss, n) ==
    LET hits == {k \in 1..Len(wss) : wss[k].name = n}
    IN  IF hits = {} THEN EmptyDict ELSE wss[SetMin(hits)]

\* result.get('documents', [{}]), the list that [0] then indexes
ResultDocuments(result) == DictGet(result, "documents", <<EmptyDict>>)
\* result.get('documents', [{}])[0].get('location'), for a non-empty list
DocLocation(result) == DictGet(ResultDocuments(result)[1], "location", None)

UpIdle ==
    /\ service_workspaces = <<>>
    /\ dir_exists = FALSE
    /\ dir_entries = <<>>
    /\ up_pc = "idle"
    /\ workspace_slug = NoSlug
    /\ files = <<>>
    /\ idx = 0
    /\ uploaded = 0
    /\ embedded = 0
    /\ create_calls = 0
    /\ held_at_start = FALSE
    /\ events = <<>>
    /\ run = 0

(***************************************************************************)
(* main() of both scripts: flags, environment variables, the .env file     *)
(***************************************************************************)
\* the flags whose default is read from an environment variable
Flags == {"url", "path", "username", "password", "api_key"}
EnvFlags(c) == IF c = "exporter" THEN {"url", "path", "username", "password"}
                                 ELSE {"url", "api_key"}
\* the second argument of os.getenv in add_argument(default=...)
GetenvDefault(c, f) ==
    IF c = "exporter" /\ f = "path" THEN "/"
    ELSE IF c = "uploader" /\ f = "url" THEN "http://localhost:3001"
    ELSE None
\* os.getenv(name, default) on the environment env
Getenv(env, c, f) == IF env[f] # None THEN env[f] ELSE GetenvDefault(c, f)
\* a flag is given on the command line (value "cli") or not; a variable is set
\* in the process environment (value "env") or not, and in the .env file
\* (value "file") or not
Settings(c, v) == {m \in [Flags -> {None, v}] : \A f \in Flags \ EnvFlags(c) : m[f] = None}
Unset == [f \in Flags |-> None]

MainIdle ==
    /\ cli = "none"
    /\ dotenv_available = FALSE
    /\ argv = Unset
    /\ os_environ = Unset
    /\ env_file = Unset
    /\ args = Unset
    /\ main_pc = "idle"
    /\ passed = Unset

(***************************************************************************)
(* Titles given to sanitize_filename: short titles over every character    *)
(* the function treats specially, and titles around the length limit made  *)
(* of a short head, a run of letters and a short tail.                     *)
(***************************************************************************)
MaxShort == 2
MaxHead == 1
MaxTail == 2
TitleAlphabet == Forbidden \cup Whitespace \cup StripChars \cup {"a"}
\* one or two characters of each kind around the run of letters
EdgeAlphabet == {"*", " ", "\t", "_", ".", "a"}
Letters(n) == [k \in 1..n |-> "a"]
PadLens == {MaxNameLen - 2, MaxNameLen - 1}
ShortTitles == SeqsUpTo(TitleAlphabet, MaxShort)
LongTitles == {h \o Letters(n) \o t : h \in SeqsUpTo(EdgeAlphabet, MaxHead),
                                      n \in PadLens,
                                      t \in SeqsUpTo(EdgeAlphabet, MaxTail)}
SanTitles == ShortTitles \cup LongTitles

SanIdle ==
    /\ title = <<>>
    /\ safe_name = <<>>
    /\ san_pc = "idle"

SanInit ==
    /\ title \in SanTitles
    /\ safe_name = <<>>
    /\ san_pc = "call"
    /\ ExpIdle
    /\ UpIdle
    /\ MainIdle

Sanitize ==
    /\ san_pc = "call"
    /\ safe_name' = sanitize_filename(title)
    /\ san_pc' = "returned"
    /\ UNCHANGED <<title, expVars, upVars, mainVars>>

SanNext == Sanitize
SpecSanitize == SanInit /\ [][SanNext]_vars

\* C7: for every title, the string sanitize_filename returns contains none of
\* < > : " / \ | ? * and no whitespace character, and has at most 200 characters.
C7_SafeCharsAndLength ==
    san_pc = "returned" =>
        /\ \A k \in 1..Len(safe_name) : safe_name[k] \notin Forbidden \cup Whitespace
        /\ Len(safe_name) <= MaxNameLen

\* a title over 200 characters holding a forbidden character and whitespace
\* has been sanitized and cut to 200 characters
C7_Witness ==
    /\ san_pc = "returned"
    /\ Len(title) > MaxNameLen
    /\ \E k \in 1..Len(title) : title[k] \in Forbidden
    /\ \E k \in 1..Len(title) : title[k] \in Whitespace
    /\ Len(safe_name) = MaxNameLen

\* C6 (as claimed): for every title, the returned string neither starts nor
\* ends with '_' or '.', also when the title is truncated to 200 characters.
C6_NoLeadingTrailing ==
    (san_pc = "returned" /\ Len(safe_name) > 0) =>
        /\ safe_name[1] \notin StripChars
        /\ safe_name[Len(safe_name)] \notin StripChars

(***************************************************************************)
(* The export run                                                          *)
(***************************************************************************)
ExpInit ==
    /\ pages \in PageSeqs
    /\ limit \in Limits
    /\ exp_pc = "connect"
    /\ i = 0
    /\ exported_count = 0
    /\ error_count = 0
    /\ fetched = {}
    /\ writes = <<>>
    /\ disk = {}
    /\ SanIdle
    /\ UpIdle
    /\ MainIdle

\* mwclient.Site(...) raises: sys.exit(1)
ExportConnectFail ==
    /\ exp_pc = "connect"
    /\ exp_pc' = "exit1"
    /\ UNCHANGED <<pages, limit, i, exported_count, error_count, fetched, writes, disk, sanVars, upVars, mainVars>>

\* connection made; the optional login succeeds or fails with a warning only;
\* the output directory is created; the counters start at 0
ExportSetup ==
    /\ exp_pc = "connect"
    /\ exp_pc' = "loop"
    /\ exported_count' = 0
    /\ error_count' = 0
    /\ UNCHANGED <<pages, limit, i, fetched, writes, disk, sanVars, upVars, mainVars>>

\* if limit and i >= limit: break, then the summary
ExportLimitReached ==
    /\ exp_pc = "loop"
    /\ i < Len(pages)
    /\ LimitReached
    /\ exp_pc' = "done"
    /\ UNCHANGED <<pages, limit, i, exported_count, error_count, fetched, writes, disk, sanVars, upVars, mainVars>>

\* variant: the failed fetch is skipped without being counted
ExportFetchFailUncounted ==
    /\ exp_pc = "loop"
    /\ i < Len(pages)
    /\ ~LimitReached
    /\ pages[i + 1].outcome = "fetch_fail"
    /\ fetched' = fetched \cup {i}
    /\ i' = i + 1
    /\ UNCHANGED <<pages, limit, exp_pc, exported_count, error_count, writes, disk,
                   sanVars, upVars, mainVars>>

\* get_page_content returns None: error_count += 1; continue
ExportFetchFail ==
    /\ exp_pc = "loop"
    /\ i < Len(pages)
    /\ ~LimitReached
    /\ pages[i + 1].outcome = "fetch_fail"
    /\ fetched' = fetched \cup {i}
    /\ error_count' = error_count + 1
    /\ i' = i + 1
    /\ UNCHANGED <<pages, limit, exp_pc, exported_count, writes, disk, sanVars, upVars, mainVars>>

\* content fetched, the write raises: except Exception: error_count += 1
ExportWriteFail ==
    /\ exp_pc = "loop"
    /\ i < Len(pages)
    /\ ~LimitReached
    /\ pages[i + 1].outcome = "write_fail"
    /\ fetched' = fetched \cup {i}
    /\ error_count' = error_count + 1
    /\ i' = i + 1
    /\ UNCHANGED <<pages, limit, exp_pc, exported_count, writes, disk, sanVars, upVars, mainVars>>

\* content fetched and written to <sanitized title>.txt: exported_count += 1
ExportWritten ==
    /\ exp_pc = "loop"
    /\ i < Len(pages)
    /\ ~LimitReached
    /\ pages[i + 1].outcome = "ok"
    /\ LET filename == sanitize_filename(pages[i + 1].name) \o TxtSuffix
       IN  /\ writes' = Append(writes, filename)
           /\ disk' = disk \cup {filename}
    /\ fetched' = fetched \cup {i}
    /\ exported_count' = exported_count + 1
    /\ i' = i + 1
    /\ UNCHANGED <<pages, limit, exp_pc, error_count, sanVars, upVars, mainVars>>

\* the iterator is exhausted: the summary is printed
ExportExhausted ==
    /\ exp_pc = "loop"
    /\ i = Len(pages)
    /\ exp_pc' = "done"
    /\ UNCHANGED <<pages, limit, i, exported_count, error_count, fetched, writes, disk, sanVars, upVars, mainVars>>

ExpNext ==
    \/ ExportConnectFail
    \/ ExportSetup
    \/ ExportLimitReached
    \/ ExportFetchFail
    \/ ExportWriteFail
    \/ ExportWritten
    \/ ExportExhausted

Spec == ExpInit /\ [][ExpNext]_vars

NumPages == Len(pages)
NumFetchFail == Cardinality({k \in 1..Len(pages) : pages[k].outcome = "fetch_fail"})
AllWritesSucceed == \A k \in 1..Len(pages) : pages[k].outcome # "write_fail"

\* C1: with no limit, N pages of which M fail the content fetch and no write
\* failing, the run ends with N-M files written, exported_count = N-M and
\* error_count = M.
C1_ExportCounts ==
    (exp_pc = "done" /\ limit = NoLimit /\ AllWritesSucceed) =>
        /\ Len(writes) = NumPages - NumFetchFail
        /\ exported_count = NumPages - NumFetchFail
        /\ error_count = NumFetchFail

\* a finished run without limit over MaxPages pages, some but not all of
\* which failed the content fetch
C1_Witness ==
    /\ exp_pc = "done"
    /\ limit = NoLimit
    /\ AllWritesSucceed
    /\ NumPages = MaxPages
    /\ NumFetchFail > 0
    /\ NumFetchFail < NumPages
    /\ exported_count > 0

\* C2 (as claimed): with a limit L < N, L = 0 included, the loop processes
\* exactly L pages and touches no page at index >= L.
C2_LimitStopsAfterL ==
    (exp_pc = "done" /\ limit # NoLimit /\ limit[1] >= 0 /\ limit[1] < NumPages) =>
        /\ exported_count + error_count = limit[1]
        /\ \A k \in fetched : k < limit[1]

(***************************************************************************)
(* The upload run                                                          *)
(***************************************************************************)
UpInit ==
    /\ service_workspaces \in InitialServices
    /\ dir_exists \in BOOLEAN
    /\ dir_entries \in (IF dir_exists THEN SeqsUpTo(EntryKinds, MaxEntries) ELSE {<<>>})
    /\ up_pc = "ping"
    /\ workspace_slug = NoSlug
    /\ files = <<>>
    /\ idx = 0
    /\ uploaded = 0
    /\ embedded = 0
    /\ create_calls = 0
    /\ held_at_start = HoldsName(service_workspaces, WorkspaceName)
    /\ events = <<>>
    /\ run = 1
    /\ SanIdle
    /\ ExpIdle
    /\ MainIdle

\* client.ping() is False: sys.exit(1)
PingFail ==
    /\ up_pc = "ping"
    /\ up_pc' = "exit1"
    /\ UNCHANGED <<service_workspaces, dir_exists, dir_entries, workspace_slug, files, idx,
                   uploaded, embedded, create_calls, held_at_start, events, run, sanVars, expVars, mainVars>>

PingOk ==
    /\ up_pc = "ping"
    /\ up_pc' = "resolve"
    /\ UNCHANGED <<service_workspaces, dir_exists, dir_entries, workspace_slug, files, idx,
                   uploaded, embedded, create_calls, held_at_start, events, run, sanVars, expVars, mainVars>>

\* the list holds a workspace of that name: it is used
ResolveFound ==
    /\ up_pc = "resolve"
    /\ \E raised \in BOOLEAN :
         LET workspace == FindWorkspace(get_workspaces(raised), WorkspaceName)
         IN  /\ DictTruthy(workspace)
             /\ workspace_slug' = DictGet(workspace, "slug", NoSlug)
    /\ up_pc' = "enumerate"
    /\ UNCHANGED <<service_workspaces, dir_exists, dir_entries, files, idx,
                   uploaded, embedded, create_calls, held_at_start, events, run, sanVars, expVars, mainVars>>

\* no workspace of that name in the list: create_workspace, which succeeds
ResolveCreate ==
    /\ up_pc = "resolve"
    /\ \E raised \in BOOLEAN :
         ~DictTruthy(FindWorkspace(get_workspaces(raised), WorkspaceName))
    /\ LET workspace == Workspace(WorkspaceName, Len(service_workspaces) + 1)
       IN  /\ service_workspaces' = Append(service_workspaces, workspace)
           /\ workspace_slug' = DictGet(workspace, "slug", NoSlug)
    /\ create_calls' = create_calls + 1
    /\ up_pc' = "enumerate"
    /\ UNCHANGED <<dir_exists, dir_entries, files, idx,
                   uploaded, embedded, held_at_start, events, run, sanVars, expVars, mainVars>>

\* no workspace of that name in the list and create_workspace returns {}: sys.exit(1)
ResolveCreateFail ==
    /\ up_pc = "resolve"
    /\ \E raised \in BOOLEAN :
         ~DictTruthy(FindWorkspace(get_workspaces(raised), WorkspaceName))
    /\ create_calls' = create_calls + 1
    /\ up_pc' = "exit1"
    /\ UNCHANGED <<service_workspaces, dir_exists, dir_entries, workspace_slug, files, idx,
                   uploaded, embedded, held_at_start, events, run, sanVars, expVars, mainVars>>

\* the documents directory does not exist: sys.exit(1)
EnumerateNoDir ==
    /\ up_pc = "enumerate"
    /\ ~dir_exists
    /\ up_pc' = "exit1"
    /\ UNCHANGED <<service_workspaces, dir_exists, dir_entries, workspace_slug, files, idx,
                   uploaded, embedded, create_calls, held_at_start, events, run, sanVars, expVars, mainVars>>

\* no candidate file: sys.exit(1)
EnumerateEmpty ==
    /\ up_pc = "enumerate"
    /\ dir_exists
    /\ CandidateFiles(dir_entries) = <<>>
    /\ files' = <<>>
    /\ up_pc' = "exit1"
    /\ UNCHANGED <<service_workspaces, dir_exists, dir_entries, workspace_slug, idx,
                   uploaded, embedded, create_calls, held_at_start, events, run, sanVars, expVars, mainVars>>

\* the candidate files are listed and the counters start at 0
EnumerateFiles ==
    /\ up_pc = "enumerate"
    /\ dir_exists
    /\ CandidateFiles(dir_entries) # <<>>
    /\ files' = CandidateFiles(dir_entries)
    /\ uploaded' = 0
    /\ embedded' = 0
    /\ up_pc' = "loop"
    /\ UNCHANGED <<service_workspaces, dir_exists, dir_entries, workspace_slug, idx,
                   create_calls, held_at_start, events, run, sanVars, expVars, mainVars>>

UploadEvent(o) == [op |-> "upload", file |-> idx + 1, raised |-> o.raised]
EmbedEvent(loc) == [op |-> "embed", file |-> idx + 1, slug |-> workspace_slug, location |-> loc]
SleepEvent == [op |-> "sleep", file |-> idx + 1]

\* upload_document returns a falsy result: continue
UploadSkipped ==
    /\ up_pc = "loop"
    /\ idx < Len(files)
    /\ \E o \in UploadOutcomes :
         /\ ~DictTruthy(upload_document(o))
         /\ events' = Append(events, UploadEvent(o))
    /\ idx' = idx + 1
    /\ UNCHANGED <<service_workspaces, dir_exists, dir_entries, up_pc, workspace_slug, files,
                   uploaded, embedded, create_calls, held_at_start, run, sanVars, expVars, mainVars>>

\* the result's 'documents' list is empty: [0] raises IndexError, which nothing catches
UploadIndexError ==
    /\ up_pc = "loop"
    /\ idx < Len(files)
    /\ \E o \in UploadOutcomes :
         /\ DictTruthy(upload_document(o))
         /\ ResultDocuments(upload_document(o)) = <<>>
         /\ events' = Append(events, UploadEvent(o))
    /\ idx' = idx + 1
    /\ uploaded' = uploaded + 1
    /\ up_pc' = "crashed"
    /\ UNCHANGED <<service_workspaces, dir_exists, dir_entries, workspace_slug, files,
                   embedded, create_calls, held_at_start, run, sanVars, expVars, mainVars>>

\* uploaded, but the result holds no usable location: no embedding call; sleep
UploadNoLocation ==
    /\ up_pc = "loop"
    /\ idx < Len(files)
    /\ \E o \in UploadOutcomes :
         /\ DictTruthy(upload_document(o))
         /\ ResultDocuments(upload_document(o)) # <<>>
         /\ ~StrTruthy(DocLocation(upload_document(o)))
         /\ events' = events \o <<UploadEvent(o), SleepEvent>>
    /\ idx' = idx + 1
    /\ uploaded' = uploaded + 1
    /\ UNCHANGED <<service_workspaces, dir_exists, dir_entries, up_pc, workspace_slug, files,
                   embedded, create_calls, held_at_start, run, sanVars, expVars, mainVars>>

\* uploaded and add_document_to_workspace returns True: embedded += 1; sleep
UploadEmbedded ==
    /\ up_pc = "loop"
    /\ idx < Len(files)
    /\ \E o \in UploadOutcomes, raised \in BOOLEAN :
         /\ DictTruthy(upload_document(o))
         /\ ResultDocuments(upload_document(o)) # <<>>
         /\ StrTruthy(DocLocation(upload_document(o)))
         /\ add_document_to_workspace(raised)
         /\ events' = events \o <<UploadEvent(o), EmbedEvent(DocLocation(upload_document(o))),
                                   SleepEvent>>
    /\ idx' = idx + 1
    /\ uploaded' = uploaded + 1
    /\ embedded' = embedded + 1
    /\ UNCHANGED <<service_workspaces, dir_exists, dir_entries, up_pc, workspace_slug, files,
                   create_calls, held_at_start, run, sanVars, expVars, mainVars>>

\* uploaded and add_document_to_workspace returns False; sleep
UploadEmbedFailed ==
    /\ up_pc = "loop"
    /\ idx < Len(files)
    /\ \E o \in UploadOutcomes, raised \in BOOLEAN :
         /\ DictTruthy(upload_document(o))
         /\ ResultDocuments(upload_document(o)) # <<>>
         /\ StrTruthy(DocLocation(upload_document(o)))
         /\ ~add_document_to_workspace(raised)
         /\ events' = events \o <<UploadEvent(o), EmbedEvent(DocLocation(upload_document(o))),
                                   SleepEvent>>
    /\ idx' = idx + 1
    /\ uploaded' = uploaded + 1
    /\ UNCHANGED <<service_workspaces, dir_exists, dir_entries, up_pc, workspace_slug, files,
                   embedded, create_calls, held_at_start, run, sanVars, expVars, mainVars>>

\* every file has been processed: the summary is printed
UploadSummary ==
    /\ up_pc = "loop"
    /\ idx = Len(files)
    /\ up_pc' = "done"
    /\ UNCHANGED <<service_workspaces, dir_exists, dir_entries, workspace_slug, files, idx,
                   uploaded, embedded, create_calls, held_at_start, events, run, sanVars, expVars, mainVars>>

\* the script is run again against the same service and directory
RunAgain ==
    /\ up_pc \in {"done", "exit1", "crashed"}
    /\ run < MaxRuns
    /\ run' = run + 1
    /\ up_pc' = "ping"
    /\ workspace_slug' = NoSlug
    /\ files' = <<>>
    /\ idx' = 0
    /\ uploaded' = 0
    /\ embedded' = 0
    /\ create_calls' = 0
    /\ held_at_start' = HoldsName(service_workspaces, WorkspaceName)
    /\ events' = <<>>
    /\ UNCHANGED <<service_workspaces, dir_exists, dir_entries, sanVars, expVars, mainVars>>

UpNext ==
    \/ PingFail
    \/ PingOk
    \/ ResolveFound
    \/ ResolveCreate
    \/ ResolveCreateFail
    \/ EnumerateNoDir
    \/ EnumerateEmpty
    \/ EnumerateFiles
    \/ UploadSkipped
    \/ UploadIndexError
    \/ UploadNoLocation
    \/ UploadEmbedded
    \/ UploadEmbedFailed
    \/ UploadSummary
    \/ RunAgain

SpecUpload == UpInit /\ [][UpNext]_vars

\* the upload calls of the run that raised, and the candidate files
NumUploadRaised == Cardinality({k \in 1..Len(events) : events[k].op = "upload" /\ events[k].raised})
NumFiles == Len(files)

\* C3 (as claimed): with K candidate files of which exactly one upload call
\* fails, the run ends with uploaded = K-1 and embedded <= K-1, whatever the
\* successful upload responses contain.
C3_OneUploadFails ==
    (up_pc \in {"done", "crashed"} /\ idx = NumFiles /\ NumUploadRaised = 1) =>
        /\ up_pc = "done"
        /\ uploaded = NumFiles - 1
        /\ embedded <= NumFiles - 1

\* C4 (as claimed): no failure tied to one item ends the process; the loop
\* always goes on to the next item and to the summary.
C4_ItemFailuresCaught == up_pc # "crashed" /\ exp_pc # "crashed"

\* C5 (as claimed): when the service holds a workspace of the target name as
\* the run begins, the run issues no create-workspace call and uses that
\* workspace's slug, whatever the list-workspaces call does.
C5_NoSecondCreate ==
    held_at_start =>
        /\ create_calls = 0
        /\ up_pc \in {"enumerate", "loop", "done", "crashed"} =>
               workspace_slug = FindWorkspace(service_workspaces, WorkspaceName).slug

\* C9 (as claimed): between the upload call for one file and the upload call
\* for the next there is always a pause.
C9_PauseBetweenUploads ==
    \A a, b \in 1..Len(events) :
        (a < b /\ events[a].op = "upload" /\ events[b].op = "upload") =>
            \E c \in (a + 1)..(b - 1) : events[c].op = "sleep"

\* C10: 0 <= embedded <= uploaded <= files processed <= candidate files, and
\* every embedding call directly follows the successful upload call of the
\* same file, carries a non-empty location and the slug resolved during setup.
C10_UploadInvariant ==
    /\ 0 <= embedded
    /\ embedded <= uploaded
    /\ uploaded <= idx
    /\ idx <= NumFiles
    /\ \A k \in 1..Len(events) :
         events[k].op = "embed" =>
            /\ k > 1
            /\ events[k - 1].op = "upload"
            /\ events[k - 1].file = events[k].file
            /\ ~events[k - 1].raised
            /\ events[k].location \notin {None, ""}
            /\ events[k].slug = workspace_slug
            /\ \E w \in 1..Len(service_workspaces) :
                  /\ service_workspaces[w].name = WorkspaceName
                  /\ service_workspaces[w].slug = events[k].slug

\* a finished run over several files in which one upload failed, one file was
\* uploaded without being embedded and one was embedded
C10_Witness ==
    /\ up_pc = "done"
    /\ NumFiles >= 3
    /\ 0 < embedded
    /\ embedded < uploaded
    /\ uploaded < idx
    /\ \E k \in 1..Len(events) : events[k].op = "embed"

(***************************************************************************)
(* main() of one of the two scripts                                        *)
(***************************************************************************)
MainInit ==
    /\ cli \in {"exporter", "uploader"}
    /\ dotenv_available \in BOOLEAN
    /\ argv \in Settings(cli, "cli")
    /\ os_environ \in Settings(cli, "env")
    /\ env_file \in Settings(cli, "file")
    /\ args = Unset
    /\ main_pc = "parse"
    /\ passed = Unset
    /\ SanIdle
    /\ ExpIdle
    /\ UpIdle

\* add_argument(default=os.getenv(...)) and parse_args()
ParseArgs ==
    /\ main_pc = "parse"
    /\ args' = [f \in Flags |->
                  IF f \notin EnvFlags(cli) THEN None
                  ELSE IF argv[f] # None THEN argv[f]
                  ELSE Getenv(os_environ, cli, f)]
    /\ main_pc' = "load"
    /\ UNCHANGED <<cli, dotenv_available, argv, os_environ, env_file, passed,
                   sanVars, expVars, upVars>>

\* load_dotenv(): variables of the file that os.environ lacks are set; the
\* uploader then reads ANYTHINGLLM_API_KEY again if args.api_key is empty
LoadDotenv ==
    /\ main_pc = "load"
    /\ dotenv_available
    /\ LET loaded == [f \in Flags |-> IF os_environ[f] = None THEN env_file[f]
                                                            ELSE os_environ[f]]
       IN  /\ os_environ' = loaded
           /\ args' = IF cli = "uploader" /\ ~StrTruthy(args["api_key"])
                        THEN [args EXCEPT !["api_key"] = Getenv(loaded, cli, "api_key")]
                        ELSE args
    /\ main_pc' = "check"
    /\ UNCHANGED <<cli, dotenv_available, argv, env_file, passed, sanVars, expVars, upVars>>

\* load_dotenv is None: nothing is loaded
SkipDotenv ==
    /\ main_pc = "load"
    /\ ~dotenv_available
    /\ main_pc' = "check"
    /\ UNCHANGED <<cli, dotenv_available, argv, os_environ, env_file, args, passed,
                   sanVars, expVars, upVars>>

\* uploader, if not args.api_key: sys.exit(1)
MissingApiKey ==
    /\ main_pc = "check"
    /\ cli = "uploader"
    /\ ~StrTruthy(args["api_key"])
    /\ main_pc' = "exit1"
    /\ UNCHANGED <<cli, dotenv_available, argv, os_environ, env_file, args, passed,
                   sanVars, expVars, upVars>>

\* scrape_mediawiki(...) / upload_documents(...) is called with the args
CallRun ==
    /\ main_pc = "check"
    /\ cli = "uploader" => StrTruthy(args["api_key"])
    /\ passed' = args
    /\ main_pc' = "called"
    /\ UNCHANGED <<cli, dotenv_available, argv, os_environ, env_file, args,
                   sanVars, expVars, upVars>>

MainNext ==
    \/ ParseArgs
    \/ LoadDotenv
    \/ SkipDotenv
    \/ MissingApiKey
    \/ CallRun

SpecMain == MainInit /\ [][MainNext]_vars

\* C8 (as claimed): with the loader available, a flag that is neither given
\* on the command line nor set in the process environment is passed to the
\* run with the value the environment file supplies.
C8_EnvFileSuppliesFlag ==
    (main_pc = "called" /\ dotenv_available) =>
        \A f \in EnvFlags(cli) :
            (argv[f] = None /\ os_environ[f] = "file") => passed[f] = "file"

====
